---- MODULE Spec2Model ----
(***************************************************************************)
(* A model of censor.ai: the /api/gemini request handler                   *)
(* (src/pages/api/gemini.js) and the page component that uploads an image, *)
(* runs OCR, asks the handler which tokens to redact and paints them       *)
(* (src/unnamed/part_000, "pages/index.js").                               *)
(*                                                                         *)
(* JavaScript strings are sequences of one-character strings, so that      *)
(* regular expressions, toLowerCase, includes, trim, split, JSON.parse and *)
(* JSON.stringify are computed character by character.                     *)
(***************************************************************************)
EXTENDS Integers, Sequences, FiniteSets, TLC

VARIABLES
    \* ---- one run of the handler
    pc,          \* "idle", "awaitFetch" (line 51), "awaitJson" (line 59), "done"
    req,         \* the request
    apiKey,      \* whether process.env.GOOGLE_API_KEY is set
    prompt,      \* the object embedded in the prompt that was sent
    fetchCalls,  \* how many times fetch was called
    fetchState,  \* "none", "pending", "resolved", "rejected"
    reply,       \* the classifier's reply: [status, body]
    resp,        \* the response sent, NoResp before
    \* ---- the fallback loop of the handler, run one token at a time
    fbItems, fbMode, fbTargets, fbIdx, fbOut,
    \* ---- the page component (React state, in-flight work, the canvas)
    file,        \* the file state: 0 for null, else a file
    ocrItems,    \* the ocrItems state
    processing,  \* the processing state
    uiMode,      \* the mode state
    uiTargets,   \* the customTargets state: the text of the input
    imgSrc,      \* the file shown by the preview image, 0 for none
    ocrJobs,     \* the runOCR calls that have not finished: [id, file]
    posts,       \* the requestRedactions calls that have not finished
    canvas,      \* what the last drawRedactions left on the canvas
    lastAlert,   \* the text of the last alert, "" for none
    uploads,     \* how many files were uploaded
    clicks       \* how many times "Run AI redaction" was clicked

hvars == <<pc, req, apiKey, prompt, fetchCalls, fetchState, reply, resp>>
fvars == <<fbItems, fbMode, fbTargets, fbIdx, fbOut>>
uvars == <<file, ocrItems, processing, uiMode, uiTargets, imgSrc, ocrJobs, posts, canvas,
           lastAlert, uploads, clicks>>
vars == <<hvars, fvars, uvars>>

\* x evaluated once and handed to F as a value (a LET is evaluated again at
\* every use)
With(x, F(_)) == CHOOSE r \in {F(y) : y \in {x}} : TRUE

(***************************************************************************)
(* Characters and strings                                                  *)
(***************************************************************************)
Digits == {"0", "1", "2", "3", "4", "5", "6", "7", "8", "9"}
DigitSeq == <<"0", "1", "2", "3", "4", "5", "6", "7", "8", "9">>
UpperSeq == <<"A", "B", "C", "D", "E", "F", "G", "H", "I", "J", "K", "L", "M",
              "N", "O", "P", "Q", "R", "S", "T", "U", "V", "W", "X", "Y", "Z">>
LowerSeq == <<"a", "b", "c", "d", "e", "f", "g", "h", "i", "j", "k", "l", "m",
              "n", "o", "p", "q", "r", "s", "t", "u", "v", "w", "x", "y", "z">>
Upper == {UpperSeq[i] : i \in DOMAIN UpperSeq}
Lower == {LowerSeq[i] : i \in DOMAIN LowerSeq}
Letters == Upper \cup Lower
\* what \s and String.prototype.trim treat as white space (the part of it used here)
WhiteSpace == {" ", "\t", "\n"}

LowerChar(c) ==
    IF c \in Upper THEN LowerSeq[CHOOSE i \in DOMAIN UpperSeq : UpperSeq[i] = c] ELSE c

\* String.prototype.toLowerCase
toLowerCase(s) == [i \in DOMAIN s |-> LowerChar(s[i])]

\* String.prototype.includes: the empty string is included in every string
includes(hay, needle) ==
    \E i \in 1 .. (Len(hay) - Len(needle) + 1) :
        SubSeq(hay, i, i + Len(needle) - 1) = needle

\* Array.prototype.includes on an array of numbers
arrayIncludes(arr, x) == \E i \in DOMAIN arr : arr[i] = x

(***************************************************************************)
(* Regular expressions.  A pattern is a sequence of items, each a          *)
(* character class with a repetition range (max = -1: unbounded); a        *)
(* regular expression is a set of alternative patterns (one for every way  *)
(* of taking or skipping its optional groups and of counting its counted   *)
(* group).  RegExp.prototype.test without the g flag is stateless and      *)
(* unanchored: some alternative matches at some position.                  *)
(***************************************************************************)
Item(cls, lo, hi) == [cls |-> cls, min |-> lo, max |-> hi]
One(cls) == Item(cls, 1, 1)
Opt(cls) == Item(cls, 0, 1)
Plus(cls) == Item(cls, 1, -1)

RECURSIVE MatchFrom(_, _, _, _)
MatchFrom(p, k, t, i) ==
    IF k > Len(p) THEN TRUE
    ELSE LET left == Len(t) - i + 1
             hi == IF p[k].max = -1 \/ p[k].max > left THEN left ELSE p[k].max
         IN \E n \in p[k].min .. hi :
                /\ \A j \in i .. (i + n - 1) : t[j] \in p[k].cls
                /\ MatchFrom(p, k + 1, t, i + n)

RegexTest(alts, t) ==
    \E p \in alts : \E i \in 1 .. (Len(t) + 1) : MatchFrom(p, 1, t, i)

RECURSIVE Repeat(_, _)
Repeat(p, n) == IF n = 0 THEN <<>> ELSE p \o Repeat(p, n - 1)

\* /(?:\d[ -]?){13,19}/
CardMinDigits == 13
CardMaxDigits == 19
reCard == {Repeat(<<One(Digits), Opt({" ", "-"})>>, n) : n \in CardMinDigits .. CardMaxDigits}

\* /-?\d+[, \s]+-?\d+[, \s]+-?\d+/
CoordSep == {",", " "} \cup WhiteSpace
reCoord == {<<Opt({"-"}), Plus(Digits), Plus(CoordSep),
              Opt({"-"}), Plus(Digits), Plus(CoordSep),
              Opt({"-"}), Plus(Digits)>>}

\* /[A-Za-z0-9._%+\-]+@[A-Za-z0-9.\-]+\.[A-Za-z]{2,}/
EmailLocal == Letters \cup Digits \cup {".", "_", "%", "+", "-"}
EmailDomain == Letters \cup Digits \cup {".", "-"}
reEmail == {<<Plus(EmailLocal), One({"@"}), Plus(EmailDomain), One({"."}),
              Item(Letters, 2, -1)>>}

\* /(?:\+?\d{1,3}[-.\s]?)?(?:\(?\d{3}\)?[-.\s]?)?\d{3}[-.\s]?\d{4}/
PhoneSep == {"-", "."} \cup WhiteSpace
PhoneCountry == <<Opt({"+"}), Item(Digits, 1, 3), Opt(PhoneSep)>>
PhoneArea == <<Opt({"("}), Item(Digits, 3, 3), Opt({")"}), Opt(PhoneSep)>>
PhoneLocal == <<Item(Digits, 3, 3), Opt(PhoneSep), Item(Digits, 4, 4)>>
rePhone == {c \o a \o PhoneLocal : c \in {<<>>, PhoneCountry}, a \in {<<>>, PhoneArea}}

\* the condition of line 97
Detected(t) ==
    RegexTest(reCard, t) \/ RegexTest(reCoord, t) \/ RegexTest(reEmail, t)
        \/ RegexTest(rePhone, t)

(***************************************************************************)
(* The fallback heuristic (gemini.js 89-106).  A token is a record         *)
(* [hasText, text]; indices are JavaScript's, from 0.                      *)
(***************************************************************************)
\* (it.text || "")
TextOf(it) == IF it.hasText THEN it.text ELSE <<>>

\* lines 100-104 for one custom target
VisitTarget_NoDedupe(fallback, t, idx, ct) ==
    IF ct # <<>> /\ includes(toLowerCase(t), toLowerCase(ct))
    THEN Append(fallback, idx)
    ELSE fallback

VisitTarget(fallback, t, idx, ct) ==
    IF ct # <<>> /\ includes(toLowerCase(t), toLowerCase(ct))
    THEN IF ~arrayIncludes(fallback, idx) THEN Append(fallback, idx) ELSE fallback
    ELSE fallback

RECURSIVE VisitTargets(_, _, _, _, _)
VisitTargets(fallback, t, idx, cts, k) ==
    IF k > Len(cts) THEN fallback
    ELSE VisitTargets(VisitTarget(fallback, t, idx, cts[k]), t, idx, cts, k + 1)

\* the body of items.forEach (lines 95-106) for the token at index idx
FallbackVisit(fallback, it, idx, mode, customTargets) ==
    LET t == TextOf(it)
        f1 == IF Detected(t) THEN Append(fallback, idx) ELSE fallback
    IN IF mode = "custom" THEN VisitTargets(f1, t, idx, customTargets, 1) ELSE f1

RECURSIVE FallbackLoop(_, _, _, _, _)
FallbackLoop(fallback, items, idx, mode, customTargets) ==
    IF idx >= Len(items) THEN fallback
    ELSE With(FallbackVisit(fallback, items[idx + 1], idx, mode, customTargets), LAMBDA f :
            FallbackLoop(f, items, idx + 1, mode, customTargets))

FallbackClassify(items, mode, customTargets) ==
    FallbackLoop(<<>>, items, 0, mode, customTargets)

(***************************************************************************)
(* JSON values: what JSON.parse returns and JSON.stringify takes, plus     *)
(* JavaScript's undefined (the value of a missing property).               *)
(***************************************************************************)
\* every value has every field, so that any two values can be compared
JVal(t, b, n, str, xs, kv) == [t |-> t, b |-> b, n |-> n, s |-> str, xs |-> xs, kv |-> kv]
JUndef == JVal("undefined", FALSE, 0, <<>>, <<>>, <<>>)
JNull == JVal("null", FALSE, 0, <<>>, <<>>, <<>>)
JBool(b) == JVal("bool", b, 0, <<>>, <<>>, <<>>)
JInt(n) == JVal("int", FALSE, n, <<>>, <<>>, <<>>)
\* a number that is not an integer, kept as its decimal text
JFloat(lex) == JVal("float", FALSE, 0, lex, <<>>, <<>>)
JStr(str) == JVal("str", FALSE, 0, str, <<>>, <<>>)
JArr(xs) == JVal("arr", FALSE, 0, <<>>, xs, <<>>)
\* kv: the members in order, each [k |-> name, v |-> value]
JObj(kv) == JVal("obj", FALSE, 0, <<>>, <<>>, kv)
KV(k, v) == [k |-> k, v |-> v]

RECURSIVE NatChars(_)
NatChars(n) ==
    IF n < 10 THEN <<DigitSeq[n + 1]>>
    ELSE NatChars(n \div 10) \o <<DigitSeq[(n % 10) + 1]>>

IntChars(n) == IF n < 0 THEN <<"-">> \o NatChars(0 - n) ELSE NatChars(n)

EscapeChar(c) ==
    CASE c = "\"" -> <<"\\", "\"">>
      [] c = "\\" -> <<"\\", "\\">>
      [] c = "\n" -> <<"\\", "n">>
      [] c = "\t" -> <<"\\", "t">>
      [] OTHER -> <<c>>

RECURSIVE QuoteBody(_, _)
QuoteBody(s, i) == IF i > Len(s) THEN <<>> ELSE EscapeChar(s[i]) \o QuoteBody(s, i + 1)

Quote(s) == <<"\"">> \o QuoteBody(s, 1) \o <<"\"">>

\* JSON.stringify of a JSON value
RECURSIVE Stringify(_), StringifyElems(_, _), StringifyMembers(_, _, _)
Stringify(v) ==
    CASE v.t = "null" -> <<"n", "u", "l", "l">>
      [] v.t = "undefined" -> <<"n", "u", "l", "l">>
      [] v.t = "bool" -> IF v.b THEN <<"t", "r", "u", "e">> ELSE <<"f", "a", "l", "s", "e">>
      [] v.t = "int" -> IntChars(v.n)
      [] v.t = "float" -> v.s
      [] v.t = "str" -> Quote(v.s)
      [] v.t = "arr" -> <<"[">> \o StringifyElems(v.xs, 1) \o <<"]">>
      [] v.t = "obj" -> <<"{">> \o StringifyMembers(v.kv, 1, TRUE) \o <<"}">>

StringifyElems(xs, i) ==
    IF i > Len(xs) THEN <<>>
    ELSE (IF i > 1 THEN <<",">> ELSE <<>>) \o Stringify(xs[i]) \o StringifyElems(xs, i + 1)

StringifyMembers(kv, i, first) ==
    IF i > Len(kv) THEN <<>>
    ELSE IF kv[i].v.t = "undefined" THEN StringifyMembers(kv, i + 1, first)
    ELSE (IF first THEN <<>> ELSE <<",">>) \o Quote(kv[i].k) \o <<":">>
             \o Stringify(kv[i].v) \o StringifyMembers(kv, i + 1, FALSE)

(***************************************************************************)
(* JSON.parse, by recursive descent.  A step returns [ok, v, i]: whether   *)
(* it parsed, the value, and the position after it.  Numbers are decimal   *)
(* without exponent, string escapes are \" \\ \/ \n \t; that covers every  *)
(* text the model feeds it.                                                *)
(***************************************************************************)
JsonWs == {" ", "\t", "\n", "\r"}
ParseFail == [ok |-> FALSE, v |-> JNull, i |-> 0]
ParseOk(v, i) == [ok |-> TRUE, v |-> v, i |-> i]

RECURSIVE SkipWs(_, _)
SkipWs(s, i) == IF i <= Len(s) /\ s[i] \in JsonWs THEN SkipWs(s, i + 1) ELSE i

RECURSIVE DigitsEnd(_, _)
DigitsEnd(s, i) == IF i <= Len(s) /\ s[i] \in Digits THEN DigitsEnd(s, i + 1) ELSE i

DigitVal(c) == (CHOOSE k \in DOMAIN DigitSeq : DigitSeq[k] = c) - 1

RECURSIVE NatOf(_, _, _, _)
NatOf(s, i, j, acc) == IF i >= j THEN acc ELSE NatOf(s, i + 1, j, acc * 10 + DigitVal(s[i]))

HasAt(s, i, lit) == i + Len(lit) - 1 <= Len(s) /\ SubSeq(s, i, i + Len(lit) - 1) = lit

ParseNumber(s, i) ==
    LET neg == s[i] = "-"
        j == IF neg THEN i + 1 ELSE i
        intEnd == IF j <= Len(s) /\ s[j] = "0" THEN j + 1 ELSE DigitsEnd(s, j)
        hasFrac == intEnd <= Len(s) /\ s[intEnd] = "."
        fracEnd == DigitsEnd(s, intEnd + 1)
        n == NatOf(s, j, intEnd, 0)
        fracZero == \A k \in (intEnd + 1) .. (fracEnd - 1) : s[k] = "0"
    IN IF intEnd = j THEN ParseFail
       ELSE IF ~hasFrac THEN ParseOk(JInt(IF neg THEN 0 - n ELSE n), intEnd)
       ELSE IF fracEnd = intEnd + 1 THEN ParseFail
       ELSE IF fracZero THEN ParseOk(JInt(IF neg THEN 0 - n ELSE n), fracEnd)
       ELSE ParseOk(JFloat(SubSeq(s, i, fracEnd - 1)), fracEnd)

\* how many backslashes stand right before position i, from position lo on
BackslashRun(s, i, lo) ==
    CHOOSE n \in 0 .. (i - lo) :
        /\ \A j \in (i - n) .. (i - 1) : s[j] = "\\"
        /\ (n = i - lo \/ s[i - n - 1] # "\\")

\* the character at i is escaped: an odd number of backslashes precede it
Escaped(s, i, lo) == BackslashRun(s, i, lo) % 2 = 1

Unescape(c) == CASE c = "n" -> "\n" [] c = "t" -> "\t" [] OTHER -> c

\* a string whose opening quote is at i - 1: it ends at the first quote that is
\* not escaped; its value drops the escaping backslashes
ParseStringBody(s, i, acc) ==
    LET closing == {j \in i .. Len(s) : s[j] = "\"" /\ ~Escaped(s, j, i)}
        close == CHOOSE j \in closing : \A k \in closing : j <= k
        kept == {j \in i .. (close - 1) : ~(s[j] = "\\" /\ ~Escaped(s, j, i))}
        nth(k) == CHOOSE j \in kept : Cardinality({x \in kept : x < j}) = k - 1
        bad == \E j \in i .. (close - 1) :
                  \/ s[j] \in {"\n", "\t", "\r"}
                  \/ (Escaped(s, j, i) /\ s[j] \notin {"\"", "\\", "/", "n", "t"})
    IN IF closing = {} THEN ParseFail
       ELSE IF bad THEN ParseFail
       ELSE ParseOk(JStr(acc \o [k \in 1 .. Cardinality(kept) |->
                                    IF Escaped(s, nth(k), i) THEN Unescape(s[nth(k)])
                                    ELSE s[nth(k)]]),
                    close + 1)

RECURSIVE ParseValue(_, _), ParseElems(_, _, _), ParseMember(_, _), ParseMembers(_, _, _)
ParseValue(s, i0) ==
    With(SkipWs(s, i0), LAMBDA i :
       IF i > Len(s) THEN ParseFail
       ELSE CASE s[i] = "{" ->
                   (LET j == SkipWs(s, i + 1)
                    IN IF j <= Len(s) /\ s[j] = "}" THEN ParseOk(JObj(<<>>), j + 1)
                       ELSE ParseMembers(s, j, <<>>))
              [] s[i] = "[" ->
                   (LET j == SkipWs(s, i + 1)
                    IN IF j <= Len(s) /\ s[j] = "]" THEN ParseOk(JArr(<<>>), j + 1)
                       ELSE ParseElems(s, j, <<>>))
              [] s[i] = "\"" -> ParseStringBody(s, i + 1, <<>>)
              [] s[i] \in Digits \cup {"-"} -> ParseNumber(s, i)
              [] HasAt(s, i, <<"n", "u", "l", "l">>) -> ParseOk(JNull, i + 4)
              [] HasAt(s, i, <<"t", "r", "u", "e">>) -> ParseOk(JBool(TRUE), i + 4)
              [] HasAt(s, i, <<"f", "a", "l", "s", "e">>) -> ParseOk(JBool(FALSE), i + 5)
              [] OTHER -> ParseFail)

ParseElems(s, i, acc) ==
    With(ParseValue(s, i), LAMBDA r :
        IF ~r.ok THEN ParseFail
        ELSE With(SkipWs(s, r.i), LAMBDA j :
            IF j > Len(s) THEN ParseFail
            ELSE IF s[j] = "," THEN With(Append(acc, r.v), LAMBDA a : ParseElems(s, j + 1, a))
            ELSE IF s[j] = "]" THEN ParseOk(JArr(Append(acc, r.v)), j + 1)
            ELSE ParseFail))

ParseMember(s, i0) ==
    With(SkipWs(s, i0), LAMBDA i :
        With(IF i <= Len(s) /\ s[i] = "\"" THEN ParseStringBody(s, i + 1, <<>>) ELSE ParseFail,
             LAMBDA k :
                IF ~k.ok THEN [ok |-> FALSE, m |-> KV(<<>>, JNull), i |-> 0]
                ELSE With(SkipWs(s, k.i), LAMBDA c :
                    IF c > Len(s) THEN [ok |-> FALSE, m |-> KV(<<>>, JNull), i |-> 0]
                    ELSE IF s[c] # ":" THEN [ok |-> FALSE, m |-> KV(<<>>, JNull), i |-> 0]
                    ELSE With(ParseValue(s, c + 1), LAMBDA r :
                            [ok |-> r.ok, m |-> KV(k.v.s, r.v), i |-> r.i]))))

ParseMembers(s, i0, acc) ==
    With(ParseMember(s, i0), LAMBDA r :
        IF ~r.ok THEN ParseFail
        ELSE With(SkipWs(s, r.i), LAMBDA j :
            IF j > Len(s) THEN ParseFail
            ELSE IF s[j] = "," THEN With(Append(acc, r.m), LAMBDA a : ParseMembers(s, j + 1, a))
            ELSE IF s[j] = "}" THEN ParseOk(JObj(Append(acc, r.m)), j + 1)
            ELSE ParseFail))

\* JSON.parse(text): [ok |-> FALSE] stands for the SyntaxError it throws
JSONparse(s) ==
    With(ParseValue(s, 1), LAMBDA r :
        IF r.ok /\ SkipWs(s, r.i) = Len(s) + 1
        THEN [ok |-> TRUE, v |-> r.v]
        ELSE [ok |-> FALSE, v |-> JNull])

(***************************************************************************)
(* JavaScript's view of a value: truthiness, property access, String(v)    *)
(***************************************************************************)
Truthy(v) ==
    CASE v.t \in {"undefined", "null"} -> FALSE
      [] v.t = "bool" -> v.b
      [] v.t = "int" -> v.n # 0
      [] v.t = "str" -> v.s # <<>>
      [] OTHER -> TRUE

\* v[0]
Get0(v) ==
    CASE v.t = "arr" -> IF Len(v.xs) > 0 THEN v.xs[1] ELSE JUndef
      [] v.t = "str" -> IF Len(v.s) > 0 THEN JStr(<<v.s[1]>>) ELSE JUndef
      [] v.t = "obj" ->
            (LET hits == {i \in DOMAIN v.kv : v.kv[i].k = <<"0">>}
             IN IF hits = {} THEN JUndef
                ELSE v.kv[CHOOSE i \in hits : \A h \in hits : h <= i].v)
      [] OTHER -> JUndef

\* v.key for one of the names the handler reads; only objects have them
Get(v, key) ==
    IF v.t = "obj"
    THEN LET hits == {i \in DOMAIN v.kv : v.kv[i].k = key}
         IN IF hits = {} THEN JUndef
            ELSE v.kv[CHOOSE i \in hits : \A h \in hits : h <= i].v
    ELSE JUndef

sObjectObject == <<"[", "o", "b", "j", "e", "c", "t", " ", "O", "b", "j", "e", "c", "t", "]">>

\* String(v), the coercion JSON.parse applies to its argument
RECURSIVE ToStringJS(_), JoinComma(_, _)
ToStringJS(v) ==
    CASE v.t = "str" -> v.s
      [] v.t = "int" -> IntChars(v.n)
      [] v.t = "float" -> v.s
      [] v.t = "bool" -> Stringify(v)
      [] v.t = "null" -> Stringify(v)
      [] v.t = "undefined" -> <<"u", "n", "d", "e", "f", "i", "n", "e", "d">>
      [] v.t = "arr" -> JoinComma(v.xs, 1)
      [] v.t = "obj" -> sObjectObject

JoinComma(xs, i) ==
    IF i > Len(xs) THEN <<>>
    ELSE (IF i > 1 THEN <<",">> ELSE <<>>)
             \o (IF xs[i].t \in {"null", "undefined"} THEN <<>> ELSE ToStringJS(xs[i]))
             \o JoinComma(xs, i + 1)

(***************************************************************************)
(* The handler of /api/gemini (gemini.js).  A request is                   *)
(*   [method, items, mode, customTargets]                                  *)
(* with items = [present, isArray, list] and the other two body fields     *)
(* [present, v]; a response is [status, error, detail, redact_indices,     *)
(* note], note = "" when the body has none.                                *)
(***************************************************************************)
kRedactIndices == <<"r", "e", "d", "a", "c", "t", "_", "i", "n", "d", "i", "c", "e", "s">>
kCandidates == <<"c", "a", "n", "d", "i", "d", "a", "t", "e", "s">>
kOutput == <<"o", "u", "t", "p", "u", "t">>
kContent == <<"c", "o", "n", "t", "e", "n", "t">>
kResult == <<"r", "e", "s", "u", "l", "t">>

NoResp == [status |-> 0, error |-> "", detail |-> "", redact_indices |-> <<>>, note |-> ""]
ErrResp(status, error, detail) ==
    [status |-> status, error |-> error, detail |-> detail, redact_indices |-> <<>>, note |-> ""]
OkResp(indices, note) ==
    [status |-> 200, error |-> "", detail |-> "", redact_indices |-> indices, note |-> note]

FallbackNote == "fallback heuristics used"

\* the defaults of the destructuring in line 6
ItemsOf(rq) ==
    IF rq.items.present THEN rq.items ELSE [present |-> TRUE, isArray |-> TRUE, list |-> <<>>]
ModeOf(rq) == IF rq.mode.present THEN rq.mode.v ELSE "autodetect"
TargetsOf(rq) == IF rq.customTargets.present THEN rq.customTargets.v ELSE <<>>

\* lines 5-14 with the two checks in the other order
EntryResponse_KeyFirst(rq, key) ==
    IF rq.method # "POST" THEN ErrResp(405, "", "")
    ELSE IF ~key THEN ErrResp(500, "Server missing GOOGLE_API_KEY env var", "")
    ELSE IF ~ItemsOf(rq).isArray \/ Len(ItemsOf(rq).list) = 0
         THEN ErrResp(400, "No OCR items provided", "")
    ELSE NoResp

\* lines 5-14: the response sent before any call is made, NoResp when none is
EntryResponse(rq, key) ==
    IF rq.method # "POST" THEN ErrResp(405, "", "")
    ELSE IF ~ItemsOf(rq).isArray \/ Len(ItemsOf(rq).list) = 0
         THEN ErrResp(400, "No OCR items provided", "")
    ELSE IF ~key THEN ErrResp(500, "Server missing GOOGLE_API_KEY env var", "")
    ELSE NoResp

\* lines 18 and 30: the object whose JSON text the prompt embeds
SmallList(items) ==
    [k \in DOMAIN items |-> [i |-> k - 1, hasText |-> items[k].hasText, text |-> items[k].text]]
PromptInput(rq) ==
    [mode |-> ModeOf(rq), customTargets |-> TargetsOf(rq), items |-> SmallList(ItemsOf(rq).list)]
NoPrompt == [mode |-> "", customTargets |-> <<>>, items |-> <<>>]

\* lines 112-115
CatchResp(err) == ErrResp(500, "Gemini call failed", err)

Threw == [threw |-> TRUE, v |-> JUndef]
Value(v) == [threw |-> FALSE, v |-> v]

\* line 67: jr.output.map(...).join("\n")
RECURSIVE JoinContents(_, _)
JoinContents(xs, i) ==
    IF i > Len(xs) THEN <<>>
    ELSE LET c == Get(xs[i], kContent)
             piece == IF Truthy(c) THEN (IF c.t = "str" THEN c.s ELSE Stringify(c)) ELSE <<>>
         IN (IF i > 1 THEN <<"\n">> ELSE <<>>) \o piece \o JoinContents(xs, i + 1)

\* lines 61-73: the generated text dug out of the parsed body
GenText(jr) ==
    LET cand == Get(jr, kCandidates)
        out == Get(jr, kOutput)
        res == Get(jr, kResult)
    IN IF Truthy(jr) /\ Truthy(cand) /\ Truthy(Get0(cand)) /\ Truthy(Get(Get0(cand), kOutput))
       THEN Value(Get(Get0(cand), kOutput))
       ELSE IF Truthy(jr) /\ Truthy(out) /\ Truthy(Get0(out)) /\ Truthy(Get(Get0(out), kContent))
       THEN (IF out.t # "arr" THEN Threw
             ELSE IF \E i \in DOMAIN out.xs : out.xs[i].t \in {"null", "undefined"} THEN Threw
             ELSE Value(JStr(JoinContents(out.xs, 1))))
       ELSE IF Truthy(jr) /\ Truthy(res) /\ Truthy(Get(res, kContent))
       THEN Value(Get(res, kContent))
       ELSE Value(JStr(Stringify(jr)))

\* genText.match(/\{[\s\S]*\}/m): from the first "{" to the last "}"
BraceSpan(s) ==
    LET opens == {i \in DOMAIN s : s[i] = "{"}
        first == CHOOSE i \in opens : \A j \in opens : i <= j
        closes == {i \in DOMAIN s : s[i] = "}" /\ i > first}
        last == CHOOSE i \in closes : \A j \in closes : j <= i
    IN IF opens = {} THEN [found |-> FALSE, m |-> <<>>]
       ELSE IF closes = {} THEN [found |-> FALSE, m |-> <<>>]
       ELSE [found |-> TRUE, m |-> SubSeq(s, first, last)]

\* lines 76-85: parsed, null when nothing parses; a genText that is no string
\* has no match method, and the call throws
ExtractParsed(genText) ==
    With(JSONparse(ToStringJS(genText)), LAMBDA whole :
        IF whole.ok THEN Value(whole.v)
        ELSE IF genText.t # "str" THEN Threw
        ELSE With(BraceSpan(genText.s), LAMBDA span :
                IF ~span.found THEN Value(JNull)
                ELSE With(JSONparse(span.m), LAMBDA inner :
                        IF inner.ok THEN Value(inner.v) ELSE Value(JNull))))

\* fallback indices as JSON numbers
AsJson(idxs) == [k \in DOMAIN idxs |-> JInt(idxs[k])]

\* lines 60-111, inside the try of line 33: the response for a parsed body jr
Decide(rq, jr) ==
    With(GenText(jr), LAMBDA g :
        IF g.threw THEN CatchResp("TypeError")
        ELSE With(ExtractParsed(g.v), LAMBDA p :
                IF p.threw THEN CatchResp("TypeError")
                ELSE IF ~Truthy(p.v) \/ Get(p.v, kRedactIndices).t # "arr"
                THEN OkResp(AsJson(FallbackClassify(ItemsOf(rq).list, ModeOf(rq), TargetsOf(rq))),
                            FallbackNote)
                ELSE OkResp(Get(p.v, kRedactIndices).xs, "")))

\* line 59 and on: r.json() parses the body text, whatever the HTTP status
AfterBody(rq, body) ==
    With(JSONparse(body), LAMBDA jr :
        IF ~jr.ok THEN CatchResp("FetchError: invalid json") ELSE Decide(rq, jr.v))

\* the whole handler, for a caller that sees only its response: outcome is
\* how the classifier call settles, [rejected, body]
RunHandler(rq, key, outcome) ==
    IF EntryResponse(rq, key) # NoResp THEN EntryResponse(rq, key)
    ELSE IF outcome.rejected THEN CatchResp("FetchError")
    ELSE AfterBody(rq, outcome.body)

(***************************************************************************)
(* The page component (pages/index.js)                                     *)
(***************************************************************************)
\* String.prototype.split(",")
RECURSIVE SplitFrom(_, _, _, _)
SplitFrom(s, i, cur, acc) ==
    IF i > Len(s) THEN Append(acc, cur)
    ELSE IF s[i] = "," THEN SplitFrom(s, i + 1, <<>>, Append(acc, cur))
    ELSE SplitFrom(s, i + 1, Append(cur, s[i]), acc)
split(s) == SplitFrom(s, 1, <<>>, <<>>)

\* String.prototype.trim
trim(s) ==
    LET keep == {i \in DOMAIN s : s[i] \notin WhiteSpace}
        lo == CHOOSE i \in keep : \A j \in keep : i <= j
        hi == CHOOSE i \in keep : \A j \in keep : j <= i
    IN IF keep = {} THEN <<>> ELSE SubSeq(s, lo, hi)

\* .map(s => s.trim()).filter(Boolean) of line 61
TrimAndFilter(xs) ==
    LET IsNonEmpty(x) == x # <<>>
    IN SelectSeq([k \in DOMAIN xs |-> trim(xs[k])], IsNonEmpty)

\* lines 58-66: the request that requestRedactions posts
Payload(items, m, targetsText) ==
    [method |-> "POST",
     items |-> [present |-> TRUE, isArray |-> TRUE, list |-> items],
     mode |-> [present |-> TRUE, v |-> m],
     customTargets |-> [present |-> TRUE, v |-> TrimAndFilter(split(targetsText))]]

\* res.json(body) in the handler and resp.json() in the page: the array as it
\* arrives after a trip through JSON text
OverTheWire(xs) == With(Stringify(JArr(xs)), LAMBDA text : JSONparse(text).v.xs)

kLength == <<"l", "e", "n", "g", "t", "h">>
ArrayMethodNames == {<<"m", "a", "p">>, <<"j", "o", "i", "n">>}

\* ocrItems[i] (line 89): i is turned into a property key.  "item": an element;
\* "other": a property every array has (its length, a method), which is
\* truthy and has no bbox; "undefined": nothing
ItemAt(items, v) ==
    LET key == ToStringJS(v)
        at == {i \in 0 .. (Len(items) - 1) : NatChars(i) = key}
    IN IF at # {} THEN [kind |-> "item", i |-> CHOOSE i \in at : TRUE]
       ELSE IF key = kLength /\ Len(items) > 0 THEN [kind |-> "other", i |-> 0]
       ELSE IF key \in ArrayMethodNames THEN [kind |-> "other", i |-> 0]
       ELSE [kind |-> "undefined", i |-> 0]

\* lines 88-117: boxes painted so far; destructuring the bbox of a value that
\* has none throws, which ends the loop
RECURSIVE DrawLoop(_, _, _, _)
DrawLoop(items, indices, k, boxes) ==
    IF k > Len(indices) THEN [boxes |-> boxes, aborted |-> FALSE]
    ELSE LET item == ItemAt(items, indices[k])
         IN IF item.kind = "undefined" THEN DrawLoop(items, indices, k + 1, boxes)
            ELSE IF item.kind = "other" THEN [boxes |-> boxes, aborted |-> TRUE]
            ELSE DrawLoop(items, indices, k + 1, boxes \cup {items[item.i + 1].bbox})

\* lines 76-117: the canvas after drawRedactions(indices) ran in a render whose
\* file and ocrItems were f and items
Drawn(f, items, indices) ==
    LET d == DrawLoop(items, indices, 1, {})
    IN [img |-> f, boxes |-> d.boxes, aborted |-> d.aborted, items |-> items,
        indices |-> indices, note |-> ""]

(***************************************************************************)
(* Inputs                                                                  *)
(***************************************************************************)
MaxItems == 2
MaxTargets == 2

SeqsUpTo(S, n) == UNION {[1 .. k -> S] : k \in 0 .. n}

sHello == <<"H", "e", "l", "l", "o">>
sTopSecretFile == <<"T", "o", "p", "S", "e", "c", "r", "e", "t", "F", "i", "l", "e">>
sEmail == <<"j", "a", "n", "e", ".", "d", "o", "e", "@", "e", "x", "a", "m", "p", "l", "e", ".", "c", "o", "m">>
sCard == <<"4", "1", "1", "1", " ", "1", "1", "1", "1", " ", "1", "1", "1", "1", " ", "1", "1", "1", "1">>
sCoords == <<"1", "2", "3", " ", "6", "4", " ", "-", "2", "0", "0">>
sPhone == <<"5", "5", "5", "-", "1", "2", "3", "4">>
sSecret == <<"s", "e", "c", "r", "e", "t">>
sSecretPadded == <<" ", "s", "e", "c", "r", "e", "t", " ">>
sBlank == <<" ">>
sJohnSmith == <<"J", "o", "h", "n", " ", "S", "m", "i", "t", "h">>
sEmpty == <<>>

Tok(s) == [hasText |-> TRUE, text |-> s]
NoTextTok == [hasText |-> FALSE, text |-> <<>>]

FbTokens == {Tok(sTopSecretFile), Tok(sEmail), Tok(sCard), Tok(sPhone), NoTextTok}
FbTargetStrings == {sSecret, sEmpty, sEmail}
Modes == {"autodetect", "custom"}

Absent == [present |-> FALSE, v |-> <<>>]
Present(v) == [present |-> TRUE, v |-> v]

\* requests: items missing, not a list (null, a string, an object), or a list
HTokens == {Tok(sTopSecretFile), Tok(sJohnSmith), Tok(sPhone)}
HItems ==
    {[present |-> FALSE, isArray |-> FALSE, list |-> <<>>],
     [present |-> TRUE, isArray |-> FALSE, list |-> <<>>]}
        \cup {[present |-> TRUE, isArray |-> TRUE, list |-> l] : l \in SeqsUpTo(HTokens, MaxItems)}
HModes == {[present |-> FALSE, v |-> ""]} \cup {Present(m) : m \in Modes}
HTargets == {Absent, Present(<<>>), Present(<<sSecretPadded>>), Present(<<sSecretPadded, sBlank>>)}
Requests ==
    {[method |-> "GET", items |-> [present |-> FALSE, isArray |-> FALSE, list |-> <<>>],
      mode |-> [present |-> FALSE, v |-> ""], customTargets |-> Absent]}
        \cup [method : {"POST"}, items : HItems, mode : HModes, customTargets : HTargets]

\* what the classifier may generate
Ints(ns) == [k \in DOMAIN ns |-> JInt(ns[k])]
DecisionText(xs) == Stringify(JObj(<<KV(kRedactIndices, JArr(xs))>>))
sSure == <<"S", "u", "r", "e", ":", " ">>
sThanks == <<" ", "o", "k", ".">>
sBraces == <<"{", "o", "k", "}">>
sNoJson == <<"n", "o", " ", "j", "s", "o", "n">>
sHtml == <<"<", "h", "t", "m", "l", ">">>
sLength == <<"l", "e", "n", "g", "t", "h">>
sOnePointFive == <<"1", ".", "5">>
GenTexts ==
    {JStr(DecisionText(Ints(<<0, 2, 5>>))),
     JStr(DecisionText(<<>>)),
     JStr(DecisionText(Ints(<<7, -1, 0>>))),
     JStr(sSure \o DecisionText(Ints(<<1, 0>>)) \o sThanks),
     JStr(DecisionText(Ints(<<0>>)) \o <<" ">> \o sBraces),
     JStr(sBraces \o <<" ">> \o DecisionText(Ints(<<0>>))),
     JStr(<<"[">> \o DecisionText(Ints(<<0>>)) \o <<"]">>),
     JStr(sNoJson),
     JStr(Stringify(JObj(<<KV(kRedactIndices, JStr(<<"0">>))>>))),
     JStr(Stringify(JObj(<<KV(kOutput, JArr(Ints(<<1>>)))>>))),
     JStr(DecisionText(<<JInt(0), JStr(sLength)>>)),
     JStr(DecisionText(<<JFloat(sOnePointFive), JNull>>)),
     JObj(<<KV(kRedactIndices, JArr(Ints(<<0>>)))>>)}
Candidates(g) == JObj(<<KV(kCandidates, JArr(<<JObj(<<KV(kOutput, g)>>)>>))>>)
Bodies ==
    {Stringify(Candidates(g)) : g \in GenTexts}
        \cup {Stringify(JObj(<<KV(kOutput, JArr(<<JObj(<<KV(kContent, JStr(DecisionText(Ints(<<1>>))))>>),
                                                    JObj(<<KV(kContent, JStr(sThanks))>>)>>))>>)),
              Stringify(JObj(<<KV(kOutput, JArr(<<JObj(<<KV(kContent,
                                    JObj(<<KV(kRedactIndices, JArr(Ints(<<1>>)))>>))>>)>>))>>)),
              Stringify(JObj(<<KV(kOutput, JArr(<<JObj(<<KV(kContent, JStr(sNoJson))>>), JNull>>))>>)),
              Stringify(JObj(<<KV(kResult, JObj(<<KV(kContent, JStr(DecisionText(Ints(<<0>>))))>>))>>)),
              Stringify(JObj(<<KV(kRedactIndices, JArr(Ints(<<1>>)))>>)),
              Stringify(JNull)}
\* an error reply: a JSON error object or an HTML page, with a non-success status
ErrorBodies == {Stringify(JObj(<<KV(<<"e", "r", "r", "o", "r">>, JObj(<<KV(<<"c", "o", "d", "e">>, JInt(503))>>))>>)),
                sHtml}
Replies ==
    {[status |-> 200, body |-> b] : b \in Bodies \cup {sHtml}}
        \cup {[status |-> 503, body |-> b] : b \in ErrorBodies}
NoReply == [status |-> 0, body |-> <<>>]
\* how the classifier call may settle when the page asks: fetch rejects, or
\* resolves with one of these bodies
PageGenTexts ==
    {JStr(DecisionText(Ints(<<1, 0>>))),
     JStr(DecisionText(Ints(<<7, -1, 0>>))),
     JStr(DecisionText(<<JStr(sLength), JInt(0)>>)),
     JStr(sNoJson)}
Outcomes ==
    {[rejected |-> TRUE, body |-> <<>>]}
        \cup {[rejected |-> FALSE, body |-> Stringify(Candidates(g))] : g \in PageGenTexts}

\* the page: three image files and the words OCR finds in each (none in the
\* third); a word's bbox is modelled by whose word it is
MaxUploads == 2
MaxClicks == 1
Files == {1, 2, 3}
Word(f, k, text) == [hasText |-> TRUE, text |-> text, bbox |-> [src |-> f, k |-> k]]
Words(f) ==
    CASE f = 1 -> <<Word(1, 0, sPhone), Word(1, 1, sHello)>>
      [] f = 2 -> <<Word(2, 0, sTopSecretFile)>>
      [] OTHER -> <<>>
sDefaultTargets == <<"c", "r", "e", "d", "i", "t", "_", "c", "a", "r", "d", ",",
                     "m", "i", "n", "e", "c", "r", "a", "f", "t", "_", "c", "o", "o", "r", "d", "s", ",",
                     "e", "m", "a", "i", "l">>
sTypedTargets == <<" ", "S", "e", "c", "r", "e", "t", " ", ",", " ", ",", "h", "e", "l", "l", "o">>
TargetTexts == {sDefaultTargets, sTypedTargets}

(***************************************************************************)
(* Spec: one request through the handler.  The handler runs to its first   *)
(* await (fetch, line 51), then to its second (r.json(), line 59), then to *)
(* its response; the classifier decides whether and how fetch settles.     *)
(***************************************************************************)
HIdle ==
    /\ pc = "off"
    /\ req = [method |-> "GET", items |-> [present |-> FALSE, isArray |-> FALSE, list |-> <<>>],
              mode |-> [present |-> FALSE, v |-> ""], customTargets |-> Absent]
    /\ apiKey = FALSE
    /\ prompt = NoPrompt
    /\ fetchCalls = 0
    /\ fetchState = "none"
    /\ reply = NoReply
    /\ resp = NoResp

NoCanvas == [img |-> 0, boxes |-> {}, aborted |-> FALSE, items |-> <<>>, indices |-> <<>>,
             note |-> ""]

\* the component as first rendered (lines 7-13)
UStart ==
    /\ file = 0
    /\ ocrItems = <<>>
    /\ processing = FALSE
    /\ uiMode = "autodetect"
    /\ uiTargets = sDefaultTargets
    /\ imgSrc = 0
    /\ ocrJobs = {}
    /\ posts = {}
    /\ canvas = NoCanvas
    /\ lastAlert = ""
    /\ uploads = 0
    /\ clicks = 0

UIdle == UStart

FIdle ==
    /\ fbItems = <<>>
    /\ fbMode = "autodetect"
    /\ fbTargets = <<>>
    /\ fbIdx = 0
    /\ fbOut = <<>>

Init ==
    /\ pc = "idle"
    /\ req \in Requests
    /\ apiKey \in BOOLEAN
    /\ prompt = NoPrompt
    /\ fetchCalls = 0
    /\ fetchState = "none"
    /\ reply = NoReply
    /\ resp = NoResp
    /\ FIdle
    /\ UIdle

\* lines 5-57: validation, the prompt, the call
HandlerEntry ==
    /\ pc = "idle"
    /\ IF EntryResponse(req, apiKey) # NoResp
       THEN /\ resp' = EntryResponse(req, apiKey)
            /\ pc' = "done"
            /\ UNCHANGED <<prompt, fetchCalls, fetchState>>
       ELSE /\ prompt' = PromptInput(req)
            /\ fetchCalls' = fetchCalls + 1
            /\ fetchState' = "pending"
            /\ pc' = "awaitFetch"
            /\ UNCHANGED resp
    /\ UNCHANGED <<req, apiKey, reply, fvars, uvars>>

\* fetch rejects (DNS, connection refused or reset): lines 112-115
FetchRejects ==
    /\ pc = "awaitFetch"
    /\ fetchState' = "rejected"
    /\ resp' = CatchResp("FetchError")
    /\ pc' = "done"
    /\ UNCHANGED <<req, apiKey, prompt, fetchCalls, reply, fvars, uvars>>

\* fetch resolves with a reply of any status; line 59 starts reading its body
FetchResolves ==
    /\ pc = "awaitFetch"
    /\ \E rp \in Replies : reply' = rp
    /\ fetchState' = "resolved"
    /\ pc' = "awaitJson"
    /\ UNCHANGED <<req, apiKey, prompt, fetchCalls, resp, fvars, uvars>>

\* r.json() settles: lines 59-115
BodyRead ==
    /\ pc = "awaitJson"
    /\ resp' = AfterBody(req, reply.body)
    /\ pc' = "done"
    /\ UNCHANGED <<req, apiKey, prompt, fetchCalls, fetchState, reply, fvars, uvars>>

Next == HandlerEntry \/ FetchRejects \/ FetchResolves \/ BodyRead

Spec == Init /\ [][Next]_vars

\* the event loop runs the handler whenever it can run; nothing makes the
\* classifier answer
LiveSpec == Init /\ [][Next]_vars /\ WF_vars(HandlerEntry) /\ WF_vars(BodyRead)

(***************************************************************************)
(* UISpec: the page.  Every async function reads the state of the render   *)
(* that created it, so a call carries the file and ocrItems it was started *)
(* with.  The server is the handler above, run to its response.            *)
(***************************************************************************)
UIInit == UStart /\ HIdle /\ FIdle

\* onUpload (45-49) up to the first await of runOCR (17-20)
Upload ==
    /\ uploads < MaxUploads
    /\ \E f \in Files :
        /\ file' = f
        /\ ocrJobs' = ocrJobs \cup {[id |-> uploads + 1, file |-> f]}
    /\ processing' = TRUE
    /\ ocrItems' = <<>>
    /\ uploads' = uploads + 1
    /\ UNCHANGED <<uiMode, uiTargets, imgSrc, posts, canvas, lastAlert, clicks, hvars, fvars>>

\* Tesseract finishes a file: the rest of runOCR (26-33) and of onUpload (51)
OcrDone ==
    /\ \E job \in ocrJobs :
        /\ ocrItems' = Words(job.file)
        /\ imgSrc' = job.file
        /\ ocrJobs' = ocrJobs \ {job}
    /\ processing' = FALSE
    /\ UNCHANGED <<file, uiMode, uiTargets, posts, canvas, lastAlert, uploads, clicks, hvars, fvars>>

\* the mode select (139)
ChangeMode ==
    /\ \E m \in Modes : m # uiMode /\ uiMode' = m
    /\ UNCHANGED <<file, ocrItems, processing, uiTargets, imgSrc, ocrJobs, posts, canvas,
                   lastAlert, uploads, clicks, hvars, fvars>>

\* the custom targets input, rendered in custom mode only (144-146)
ChangeTargets ==
    /\ uiMode = "custom"
    /\ \E t \in TargetTexts : t # uiTargets /\ uiTargets' = t
    /\ UNCHANGED <<file, ocrItems, processing, uiMode, imgSrc, ocrJobs, posts, canvas,
                   lastAlert, uploads, clicks, hvars, fvars>>

\* a click on "Run AI redaction" (168: disabled while processing or without a
\* file): requestRedactions up to its fetch (55-67)
ClickRun ==
    /\ ~processing
    /\ file # 0
    /\ clicks < MaxClicks
    /\ clicks' = clicks + 1
    /\ IF Len(ocrItems) = 0
       THEN /\ lastAlert' = "Upload an image first."
            /\ UNCHANGED <<processing, posts>>
       ELSE /\ processing' = TRUE
            /\ posts' = posts \cup {[id |-> clicks + 1, file |-> file, items |-> ocrItems,
                                     payload |-> Payload(ocrItems, uiMode, uiTargets),
                                     stage |-> "posted", indices |-> <<>>, note |-> ""]}
            /\ UNCHANGED lastAlert
    /\ UNCHANGED <<file, ocrItems, uiMode, uiTargets, imgSrc, ocrJobs, canvas, uploads, hvars, fvars>>

\* the handler answers a post: the rest of requestRedactions (68-72) up to the
\* first await of drawRedactions
ResponseArrives ==
    /\ \E p \in posts :
        /\ p.stage = "posted"
        /\ \E key \in BOOLEAN, o \in Outcomes : \E r \in {RunHandler(p.payload, key, o)} :
               IF r.status < 200 \/ r.status > 299
               THEN /\ lastAlert' = r.error
                    /\ posts' = posts \ {p}
               ELSE /\ posts' = (posts \ {p}) \cup
                            {[p EXCEPT !.stage = "drawing",
                                       !.indices = OverTheWire(r.redact_indices),
                                       !.note = r.note]}
                    /\ UNCHANGED lastAlert
    /\ processing' = FALSE
    /\ UNCHANGED <<file, ocrItems, uiMode, uiTargets, imgSrc, ocrJobs, canvas, uploads, clicks,
                   hvars, fvars>>

\* the image of drawRedactions has loaded: lines 81-117
Paint ==
    /\ \E p \in posts :
        /\ p.stage = "drawing"
        /\ canvas' = [Drawn(p.file, p.items, p.indices) EXCEPT !.note = p.note]
        /\ posts' = posts \ {p}
    /\ UNCHANGED <<file, ocrItems, processing, uiMode, uiTargets, imgSrc, ocrJobs, lastAlert,
                   uploads, clicks, hvars, fvars>>

UINext == Upload \/ OcrDone \/ ChangeMode \/ ChangeTargets \/ ClickRun \/ ResponseArrives \/ Paint

UISpec == UIInit /\ [][UINext]_vars

(***************************************************************************)
(* FallbackSpec: the fallback loop on its own, one token per step          *)
(***************************************************************************)
FbInit ==
    /\ fbItems \in SeqsUpTo(FbTokens, MaxItems) \ {<<>>}
    /\ fbMode \in Modes
    /\ fbTargets \in SeqsUpTo(FbTargetStrings, MaxTargets)
    /\ fbIdx = 0
    /\ fbOut = <<>>
    /\ HIdle
    /\ UIdle

FbStep ==
    /\ fbIdx < Len(fbItems)
    /\ fbOut' = FallbackVisit(fbOut, fbItems[fbIdx + 1], fbIdx, fbMode, fbTargets)
    /\ fbIdx' = fbIdx + 1
    /\ UNCHANGED <<fbItems, fbMode, fbTargets, hvars, uvars>>

FbNext == FbStep

FallbackSpec == FbInit /\ [][FbNext]_vars

(***************************************************************************)
(* The claims, each under the specification named at it                    *)
(***************************************************************************)
\* a request that passes lines 5-14: POST, a non-empty items list, the key set
Accepted ==
    /\ req.method = "POST"
    /\ ItemsOf(req).isArray
    /\ Len(ItemsOf(req).list) > 0
    /\ apiKey

\* the 200 response of line 108 for the request at hand
FallbackResponse ==
    OkResp(AsJson(FallbackClassify(ItemsOf(req).list, ModeOf(req), TargetsOf(req))), FallbackNote)

\* the classifier call failed: fetch threw, or a reply came with a status
\* outside 200..299
ClassifierUnavailable ==
    \/ fetchState = "rejected"
    \/ fetchState = "resolved" /\ (reply.status < 200 \/ reply.status > 299)

\* C1 (Spec): an accepted request whose classifier call fails (the call
\* throws, or the reply has a non-success status) is answered with the 200
\* fallback response and its note, never with an error response.
C1_UnavailableFallsBack ==
    (pc = "done" /\ Accepted /\ ClassifierUnavailable) => resp = FallbackResponse

\* a reply body that yields an object with an array-typed redact_indices
PayloadCoerces(body) ==
    LET jr == JSONparse(body)
    IN /\ jr.ok
       /\ ~GenText(jr.v).threw
       /\ LET p == ExtractParsed(GenText(jr.v).v)
          IN ~p.threw /\ Truthy(p.v) /\ Get(p.v, kRedactIndices).t = "arr"

\* C2 (Spec): when the classifier replied and the reply cannot be coerced to
\* an object with an array-typed redact_indices (a body that is no JSON, a text
\* neither parse attempt accepts, a value without the array), the response is
\* the 200 fallback response and its note, never an error response.
C2_ParseFailureFallsBack ==
    (pc = "done" /\ Accepted /\ fetchState = "resolved" /\ ~PayloadCoerces(reply.body))
        => resp = FallbackResponse

\* a POST whose items is empty or is no list
InvalidItems ==
    /\ req.method = "POST"
    /\ ~ItemsOf(req).isArray \/ Len(ItemsOf(req).list) = 0

\* C3 (Spec): a POST whose items is empty or not a list never makes a
\* classifier call and is answered with 400 "No OCR items provided", for every
\* mode and customTargets and whether or not the key is configured.
C3_ValidationBeforeCall ==
    InvalidItems =>
        /\ fetchCalls = 0
        /\ fetchState = "none"
        /\ prompt = NoPrompt
        /\ pc \in {"idle", "done"}
        /\ pc = "done" => resp = ErrResp(400, "No OCR items provided", "")

\* C3 witness: a request whose items is not a list, sent in custom mode to a
\* server without a key, has been answered with 400
C3_Witness ==
    /\ pc = "done"
    /\ req.method = "POST"
    /\ req.items.present /\ ~req.items.isArray
    /\ req.mode = Present("custom")
    /\ ~apiKey
    /\ resp = ErrResp(400, "No OCR items provided", "")
    /\ fetchCalls = 0

\* an index of the painted response that names one of the painted tokens
IndexInRange(v, items) == v.t = "int" /\ v.n >= 0 /\ v.n < Len(items)

\* the boxes of the in-range indices of the painted response
InRangeBoxes ==
    {canvas.items[canvas.indices[k].n + 1].bbox :
        k \in {j \in DOMAIN canvas.indices : IndexInRange(canvas.indices[j], canvas.items)}}

\* C4 (UISpec): drawRedactions paints exactly the boxes of the indices that lie
\* in [0, len(items)), skips every other value of redact_indices without
\* aborting, and a fallback-sourced response holds in-range indices only.
C4_OutOfRangeSkipped ==
    canvas.img # 0 =>
        /\ ~canvas.aborted
        /\ canvas.boxes = InRangeBoxes
        /\ canvas.note = FallbackNote =>
               \A k \in DOMAIN canvas.indices : IndexInRange(canvas.indices[k], canvas.items)

\* the "}" that balances the "{" at which the scan of s started, 0 when none
RECURSIVE BalancedClose(_, _, _)
BalancedClose(s, i, depth) ==
    IF i > Len(s) THEN 0
    ELSE IF s[i] = "{" THEN BalancedClose(s, i + 1, depth + 1)
    ELSE IF s[i] = "}" THEN (IF depth = 1 THEN i ELSE BalancedClose(s, i + 1, depth - 1))
    ELSE BalancedClose(s, i + 1, depth)

\* the first balanced {...} span of s, empty when there is none
FirstBalancedSpan(s) ==
    LET opens == {i \in DOMAIN s : s[i] = "{"}
        first == CHOOSE i \in opens : \A j \in opens : i <= j
    IN IF opens = {} THEN <<>>
       ELSE With(BalancedClose(s, first, 0), LAMBDA close :
                IF close = 0 THEN <<>> ELSE SubSeq(s, first, close))

\* the text the classifier generated, when the reply holds one
RawText ==
    LET jr == JSONparse(reply.body)
    IN IF jr.ok /\ ~GenText(jr.v).threw /\ GenText(jr.v).v.t = "str"
       THEN GenText(jr.v).v.s
       ELSE <<>>

\* the decision object {"redact_indices": [...]} that is the first balanced
\* span of text
DecisionIn(text) ==
    With(JSONparse(FirstBalancedSpan(text)), LAMBDA d :
        IF d.ok /\ d.v.t = "obj" /\ Len(d.v.kv) = 1 /\ d.v.kv[1].k = kRedactIndices
                /\ d.v.kv[1].v.t = "arr"
        THEN [found |-> TRUE, xs |-> d.v.kv[1].v.xs]
        ELSE [found |-> FALSE, xs |-> <<>>])

\* C5 (Spec): when the classifier's text is a decision object alone, or has
\* one as its first balanced {...} span with any text around it (text with
\* braces included), the response is that index list in order, without a
\* note; the fallback is not used.
C5_ParserRecoversDecision ==
    (pc = "done" /\ Accepted /\ fetchState = "resolved") =>
        \A d \in {DecisionIn(RawText)} : d.found => resp = OkResp(d.xs, "")

\* token it matches a detector, or in custom mode contains a target; the
\* targets that count are those that satisfy Counts
ShouldFlag(it, Counts(_)) ==
    \/ Detected(TextOf(it))
    \/ /\ fbMode = "custom"
       /\ \E k \in DOMAIN fbTargets :
              /\ Counts(fbTargets[k])
              /\ includes(toLowerCase(TextOf(it)), toLowerCase(fbTargets[k]))

\* the indices pushed so far are those below idx, strictly ascending
AscendingOnce ==
    /\ \A a, b \in DOMAIN fbOut : a < b => fbOut[a] < fbOut[b]
    /\ \A a \in DOMAIN fbOut : fbOut[a] \in 0 .. (fbIdx - 1)

\* C6 as stated (FallbackSpec): the result holds i once, in ascending order,
\* exactly when token i matches a detector, or mode is custom and its
\* lowercased text contains some lowercased customTargets entry.
C6_AnyEntryFlags ==
    /\ AscendingOnce
    /\ \A i \in 0 .. (fbIdx - 1) :
           arrayIncludes(fbOut, i) <=> ShouldFlag(fbItems[i + 1], LAMBDA ct : TRUE)

\* C6 amended (FallbackSpec): the result holds i once, in ascending order,
\* exactly when token i matches a detector, or mode is custom and its
\* lowercased text contains some non-empty lowercased customTargets entry; so
\* the detectors act alike in both modes and the targets act in custom mode only.
C6_NonEmptyEntryFlags ==
    /\ AscendingOnce
    /\ \A i \in 0 .. (fbIdx - 1) :
           arrayIncludes(fbOut, i) <=> ShouldFlag(fbItems[i + 1], LAMBDA ct : ct # <<>>)

\* C6 witness: the loop has finished in custom mode over a token that matches
\* a detector and a target at once, and a token only an empty target contains
C6_Witness ==
    /\ fbIdx = Len(fbItems)
    /\ fbMode = "custom"
    /\ fbItems = <<Tok(sEmail), Tok(sTopSecretFile)>>
    /\ fbTargets = <<sEmail, sEmpty>>
    /\ fbOut = <<0>>

\* C7 (LiveSpec): an accepted request is always finalized with a response,
\* after one classifier call at most, even when the classifier never answers.
C7_AlwaysFinalized ==
    (pc = "idle" /\ Accepted) ~> (pc = "done" /\ resp # NoResp /\ fetchCalls <= 1)

\* C8 (Spec): the redact_indices of a 200 response holds integers only.
C8_IntegersOnly ==
    (pc = "done" /\ resp.status = 200) =>
        \A k \in DOMAIN resp.redact_indices : resp.redact_indices[k].t = "int"

\* C9 (Spec): the customTargets in the prompt and in the fallback's matching
\* are the request's strings trimmed, without those that are empty after
\* trimming.
C9_TargetsTrimmed ==
    (pc = "done" /\ Accepted) =>
        /\ prompt.customTargets = TrimAndFilter(TargetsOf(req))
        /\ resp.note = FallbackNote =>
               resp.redact_indices =
                   AsJson(FallbackClassify(ItemsOf(req).list, ModeOf(req),
                                           TrimAndFilter(TargetsOf(req))))

\* C10 (UISpec): whenever boxes are painted on the image of a file, the tokens
\* they come from are the ones OCR found in that file.
C10_TokensOfPaintedFile ==
    canvas.img # 0 =>
        /\ canvas.items = Words(canvas.img)
        /\ \A b \in canvas.boxes : b.src = canvas.img

====
